---- MODULE Spec2Model ----
(***************************************************************************)
(* Model of core/pruner.go: the BasicPruner background worker, the range   *)
(* calculator calculateNumOfPrunedBlocks, Prune (two change-set walks and  *)
(* a batched delete) and the limitIterator that batchDelete drains.        *)
(***************************************************************************)
EXTENDS Integers, Sequences, FiniteSets, TLC

(* ---------------------------------------------------------------- bounds *)

\* uint64 arithmetic is modelled modulo UintMod (2^64 in the program).
UintMod == 1048576
\* Inputs of the range calculator: 0..MaxSmall, the MaxSmall+1 largest values.
MaxSmall == 3

(* ------------------------------------------------------- uint64 helpers *)

SubU64(a, b) == (a - b + UintMod) % UintMod
AddU64(a, b) == (a + b) % UintMod
SubWraps(a, b) == a < b
AddWraps(a, b) == a + b >= UintMod

Min(a, b) == IF a <= b THEN a ELSE b

(* ------------------------------------------ calculateNumOfPrunedBlocks *)

\* The result triple (from, to, ok); underflow / overflow record whether a
\* subtraction / addition that was evaluated on the way wrapped around.
CalcResult(from, to, ok, underflow, overflow) ==
  [from |-> from, to |-> to, ok |-> ok, underflow |-> underflow, overflow |-> overflow]

\* Mutant: the reorg guard `currentBlock <= lastPrunedBlock` is missing.
calcNoGuard(currentBlock, lastPrunedBlock, blocksBeforePruning, blocksBatch) ==
  LET diff == SubU64(currentBlock, lastPrunedBlock)
      u1 == SubWraps(currentBlock, lastPrunedBlock)
  IN IF diff <= blocksBeforePruning
       THEN CalcResult(lastPrunedBlock, lastPrunedBlock, FALSE, u1, FALSE)
       ELSE LET diff2 == SubU64(diff, blocksBeforePruning)
                u2 == u1 \/ SubWraps(diff, blocksBeforePruning)
            IN IF diff2 >= blocksBatch
                 THEN CalcResult(lastPrunedBlock, AddU64(lastPrunedBlock, blocksBatch), TRUE,
                                 u2, AddWraps(lastPrunedBlock, blocksBatch))
                 ELSE CalcResult(lastPrunedBlock, AddU64(lastPrunedBlock, diff2), TRUE,
                                 u2, AddWraps(lastPrunedBlock, diff2))

\* Mutant: the batch cap is dropped, `to` is always lastPrunedBlock + diff.
calcNoCap(currentBlock, lastPrunedBlock, blocksBeforePruning, blocksBatch) ==
  IF currentBlock <= lastPrunedBlock
    THEN CalcResult(lastPrunedBlock, lastPrunedBlock, FALSE, FALSE, FALSE)
    ELSE LET diff == SubU64(currentBlock, lastPrunedBlock)
         IN IF diff <= blocksBeforePruning
              THEN CalcResult(lastPrunedBlock, lastPrunedBlock, FALSE, FALSE, FALSE)
              ELSE LET diff2 == SubU64(diff, blocksBeforePruning)
                   IN CalcResult(lastPrunedBlock, AddU64(lastPrunedBlock, diff2), TRUE,
                                 FALSE, AddWraps(lastPrunedBlock, diff2))

\* Mutant: `diff < blocksBeforePruning` instead of `diff <= blocksBeforePruning`.
calcOffByOne(currentBlock, lastPrunedBlock, blocksBeforePruning, blocksBatch) ==
  IF currentBlock <= lastPrunedBlock
    THEN CalcResult(lastPrunedBlock, lastPrunedBlock, FALSE, FALSE, FALSE)
    ELSE LET diff == SubU64(currentBlock, lastPrunedBlock)
         IN IF diff < blocksBeforePruning
              THEN CalcResult(lastPrunedBlock, lastPrunedBlock, FALSE, FALSE, FALSE)
              ELSE LET diff2 == SubU64(diff, blocksBeforePruning)
                   IN IF diff2 >= blocksBatch
                        THEN CalcResult(lastPrunedBlock, AddU64(lastPrunedBlock, blocksBatch),
                                        TRUE, FALSE, AddWraps(lastPrunedBlock, blocksBatch))
                        ELSE CalcResult(lastPrunedBlock, AddU64(lastPrunedBlock, diff2),
                                        TRUE, FALSE, AddWraps(lastPrunedBlock, diff2))

\* Mutant: the retention depth is ignored, everything below the head is pruned.
calcNoRetention(currentBlock, lastPrunedBlock, blocksBeforePruning, blocksBatch) ==
  IF currentBlock <= lastPrunedBlock
    THEN CalcResult(lastPrunedBlock, lastPrunedBlock, FALSE, FALSE, FALSE)
    ELSE LET diff == SubU64(currentBlock, lastPrunedBlock)
         IN IF diff >= blocksBatch
              THEN CalcResult(lastPrunedBlock, AddU64(lastPrunedBlock, blocksBatch),
                              TRUE, FALSE, AddWraps(lastPrunedBlock, blocksBatch))
              ELSE CalcResult(lastPrunedBlock, AddU64(lastPrunedBlock, diff),
                              TRUE, FALSE, AddWraps(lastPrunedBlock, diff))

\* pruner.go:94-113.  The `default` arm of the switch is unreachable.
calculateNumOfPrunedBlocks(currentBlock, lastPrunedBlock, blocksBeforePruning, blocksBatch) ==
  IF currentBlock <= lastPrunedBlock
    THEN CalcResult(lastPrunedBlock, lastPrunedBlock, FALSE, FALSE, FALSE)
    ELSE LET diff == SubU64(currentBlock, lastPrunedBlock)
             u1 == SubWraps(currentBlock, lastPrunedBlock)
         IN IF diff <= blocksBeforePruning
              THEN CalcResult(lastPrunedBlock, lastPrunedBlock, FALSE, u1, FALSE)
              ELSE LET diff2 == SubU64(diff, blocksBeforePruning)
                       u2 == u1 \/ SubWraps(diff, blocksBeforePruning)
                   IN IF diff2 >= blocksBatch
                        THEN CalcResult(lastPrunedBlock, AddU64(lastPrunedBlock, blocksBatch),
                                        TRUE, u2, AddWraps(lastPrunedBlock, blocksBatch))
                        ELSE CalcResult(lastPrunedBlock, AddU64(lastPrunedBlock, diff2),
                                        TRUE, u2, AddWraps(lastPrunedBlock, diff2))

(* --------------------------------------------------------- more bounds *)

\* pruner.go:18.
DeleteLimit == 70000
\* Limits handed to LimitIterator when batchDelete is checked on its own.
MaxLimit == 3
\* Longest key group when batchDelete is checked on its own.
MaxKeys == 2
\* Highest block number (chain head, change-set timestamp).
MaxBlock == 2
\* Most entries of one change-set bucket when Prune is checked on its own.
MaxEntries == 3
\* Most entries of the account change-set bucket in the store of the running
\* pruner (its storage change-set bucket holds at most one).
MaxStoreEntries == 1
\* Largest checkpoint found in the store when the pruner is constructed.
MaxStored == 1
\* Most batch.Delete calls of one cycle that return an error.
MaxDeleteErrors == 1

(* ------------------------------------------------------ keys and store *)

\* dbutils bucket names.
AccountsHistoryBucket == "AccountsHistoryBucket"
StorageHistoryBucket == "StorageHistoryBucket"
HashedStorageBucket == "HashedStorageBucket"
PlainAccountChangeSetBucket == "PlainAccountChangeSetBucket"
PlainStorageChangeSetBucket == "PlainStorageChangeSetBucket"

Buckets == {AccountsHistoryBucket, StorageHistoryBucket, HashedStorageBucket,
            PlainAccountChangeSetBucket, PlainStorageChangeSetBucket}

\* A change-set key is the timestamp followed by the subject key.
ChangeSetKey(timestamp, k) == <<timestamp, k>>

\* changeset.Mapper[bucket].Decode: the timestamp prefix, the subject key and
\* the decoder's error.  A key whose subject part is 0 is malformed: the
\* decoder reports an error, whatever timestamp it returns with it.
Decode(key) == [timestamp |-> key[1], parsedK |-> key[2], err |-> key[2] = 0]

\* dbutils.CompositeKeySuffix: the subject key followed by the timestamp.
CompositeKeySuffix(parsedK, timestamp) == <<parsedK, timestamp>>

\* Byte-wise order of keys: first component, then second.
KeyLess(a, b) == a[1] < b[1] \/ (a[1] = b[1] /\ a[2] < b[2])

\* The keys of a bucket in ascending key order, as an ordered scan yields them.
RECURSIVE Ascending(_)
Ascending(S) ==
  IF S = {} THEN <<>>
  ELSE LET m == CHOOSE x \in S : \A y \in S : y = x \/ KeyLess(x, y)
       IN <<m>> \o Ascending(S \ {m})

\* binary.LittleEndian.PutUint64 / Uint64 over 8 bytes.
RECURSIVE PutUint64(_, _)
PutUint64(num, n) == IF n = 0 THEN <<>> ELSE <<num % 256>> \o PutUint64(num \div 256, n - 1)

RECURSIVE Uint64(_)
Uint64(data) == IF data = <<>> THEN 0 ELSE data[1] + 256 * Uint64(Tail(data))

\* pruner.go:121-127.
ReadLastPrunedBlockNum(data) == IF Len(data) = 0 THEN 0 ELSE Uint64(data)

(* ------------------------------------------------------- keysToRemove *)

\* pruner.go:211-220.
newKeysToRemove ==
  [AccountHistoryKeys |-> <<>>, StorageHistoryKeys |-> <<>>, AccountChangeSet |-> <<>>,
   StorageChangeSet |-> <<>>, StorageKeys |-> <<>>, IntermediateTrieHashKeys |-> <<>>]

\* pruner.go:243-249: the fixed order of the key groups.
batches(k) ==
  << [bucket |-> AccountsHistoryBucket, keys |-> k.AccountHistoryKeys],
     [bucket |-> StorageHistoryBucket, keys |-> k.StorageHistoryKeys],
     [bucket |-> HashedStorageBucket, keys |-> k.StorageKeys],
     [bucket |-> PlainAccountChangeSetBucket, keys |-> k.AccountChangeSet],
     [bucket |-> PlainStorageChangeSetBucket, keys |-> k.StorageChangeSet] >>

\* pruner.go:237-252: counter, currentBucket and currentNum start zero.
LimitIterator(k, limit) ==
  [counter |-> 0, currentBucket |-> "", currentNum |-> 0, limit |-> limit]

NoIterator == LimitIterator(newKeysToRemove, 0)

(* ------------------------------------------------------- limitIterator *)

\* pruner.go:291-298.
HasMore(i, bs) ==
  LET lastBatch == bs[Len(bs)]
  IN ~(i.currentBucket = lastBatch.bucket /\ Len(lastBatch.keys) = i.currentNum)

\* pruner.go:305-314: the loop over all batches but the last.
RECURSIVE updateBucketLoop(_, _, _)
updateBucketLoop(i, bs, batchIndex) ==
  IF batchIndex >= Len(bs) THEN i
  ELSE IF i.currentBucket = bs[batchIndex].bucket /\ Len(bs[batchIndex].keys) = i.currentNum
         THEN updateBucketLoop([i EXCEPT !.currentBucket = bs[batchIndex + 1].bucket,
                                         !.currentNum = 0], bs, batchIndex + 1)
         ELSE updateBucketLoop(i, bs, batchIndex + 1)

\* pruner.go:300-315.
updateBucket(i, bs) ==
  updateBucketLoop(IF i.currentBucket = "" THEN [i EXCEPT !.currentBucket = bs[1].bucket] ELSE i,
                   bs, 1)

\* pruner.go:287-289.
ResetLimit(i) == [i EXCEPT !.counter = 0]

NoKey == <<>>

\* pruner.go:276-284: the first of all batches but the last whose bucket is
\* the current one; 0 when the loop falls through.
RECURSIVE findBatch(_, _, _)
findBatch(i, bs, batchIndex) ==
  IF batchIndex >= Len(bs) THEN 0
  ELSE IF i.currentBucket = bs[batchIndex].bucket THEN batchIndex
       ELSE findBatch(i, bs, batchIndex + 1)

\* pruner.go:263-285.  Returns the iterator after the call (the deferred
\* increments included) with the triple (key, bucket, ok).
GetNext(i, bs) ==
  IF i.limit <= i.currentNum
    THEN [it |-> i, key |-> NoKey, bucket |-> "", ok |-> FALSE]
    ELSE LET u == updateBucket(i, bs)
         IN IF ~HasMore(u, bs)
              THEN [it |-> u, key |-> NoKey, bucket |-> "", ok |-> FALSE]
              ELSE LET after == [u EXCEPT !.currentNum = @ + 1, !.counter = @ + 1]
                       b == findBatch(u, bs, 1)
                   IN IF b # 0
                        THEN [it |-> after, key |-> bs[b].keys[u.currentNum + 1],
                              bucket |-> bs[b].bucket, ok |-> TRUE]
                        ELSE [it |-> after, key |-> NoKey, bucket |-> "", ok |-> FALSE]

(* ---------------------------------------------------------------- Prune *)

\* Mutant: the lower end of the window is exclusive (`timestamp <= blockNumFrom`).
accountWalkerExclusive(k, key, blockNumFrom, blockNumTo) ==
  LET d == Decode(key)
  IN IF d.timestamp <= blockNumFrom THEN [k |-> k, continue |-> TRUE]
     ELSE IF d.timestamp > blockNumTo THEN [k |-> k, continue |-> FALSE]
     ELSE [k |-> [k EXCEPT !.AccountChangeSet = Append(@, key),
                           !.AccountHistoryKeys =
                              Append(@, CompositeKeySuffix(d.parsedK, d.timestamp))],
           continue |-> TRUE]

\* pruner.go:141-154: the visitor of the account change-set walk.
accountWalker(k, key, blockNumFrom, blockNumTo) ==
  LET d == Decode(key)
  IN IF d.timestamp < blockNumFrom THEN [k |-> k, continue |-> TRUE]
     ELSE IF d.timestamp > blockNumTo THEN [k |-> k, continue |-> FALSE]
     ELSE [k |-> [k EXCEPT !.AccountChangeSet = Append(@, key),
                           !.AccountHistoryKeys =
                              Append(@, CompositeKeySuffix(d.parsedK, d.timestamp))],
           continue |-> TRUE]

\* Mutant: an entry past the window is skipped, the walk goes on.
storageWalkerNoStop(k, key, blockNumFrom, blockNumTo) ==
  LET d == Decode(key)
  IN IF d.timestamp < blockNumFrom THEN [k |-> k, continue |-> TRUE]
     ELSE IF d.timestamp > blockNumTo THEN [k |-> k, continue |-> TRUE]
     ELSE [k |-> [k EXCEPT !.StorageChangeSet = Append(@, key)], continue |-> TRUE]

\* pruner.go:160-174: the visitor of the storage change-set walk.
storageWalker(k, key, blockNumFrom, blockNumTo) ==
  LET d == Decode(key)
  IN IF d.timestamp < blockNumFrom THEN [k |-> k, continue |-> TRUE]
     ELSE IF d.timestamp > blockNumTo THEN [k |-> k, continue |-> FALSE]
     ELSE [k |-> [k EXCEPT !.StorageChangeSet = Append(@, key)], continue |-> TRUE]

walker(bucket, k, key, blockNumFrom, blockNumTo) ==
  IF bucket = PlainAccountChangeSetBucket
    THEN accountWalker(k, key, blockNumFrom, blockNumTo)
    ELSE storageWalker(k, key, blockNumFrom, blockNumTo)

\* db.Walk(bucket, []byte{}, 0, visitor): an ascending scan from the first
\* key that stops when the visitor returns false, or with a read error
\* before entry failAt (0: no read error).  visited lists the entries the
\* visitor was called on.
RECURSIVE Walk(_, _, _, _, _, _, _, _)
Walk(bucket, entries, n, failAt, k, visited, blockNumFrom, blockNumTo) ==
  IF n = failAt THEN [k |-> k, visited |-> visited, err |-> "walk"]
  ELSE IF n > Len(entries) THEN [k |-> k, visited |-> visited, err |-> "nil"]
  ELSE LET r == walker(bucket, k, entries[n], blockNumFrom, blockNumTo)
       IN IF r.continue
            THEN Walk(bucket, entries, n + 1, failAt, r.k, Append(visited, entries[n]),
                      blockNumFrom, blockNumTo)
            ELSE [k |-> r.k, visited |-> Append(visited, entries[n]), err |-> "nil"]

(* ------------------------------------------------------------ variables *)

VARIABLES
  config,              \* CacheConfig: BlocksBeforePruning, BlocksToPrune
  head,                \* chain.CurrentBlock().Number(), NoBlock when nil
  db,                  \* the store: bucket -> set of keys
  stored,              \* bytes under LastPrunedBlockKey, <<>> when absent
  LastPrunedBlockNum,  \* BasicPruner.LastPrunedBlockNum
  stop,                \* number of signals buffered in the stop channel
  wg,                  \* the wait group's counter
  caller,              \* position of the thread that calls Start and Stop
  pc,                  \* position of the pruningLoop goroutine
  range,               \* blockNumFrom, blockNumTo of the running cycle
  keysToRemove,        \* keys collected by Prune
  it,                  \* the limitIterator of batchDelete
  batch,               \* deletes staged in the open write batch
  issued,              \* every batch.Delete call of the cycle, in order
  committed,           \* how many of issued belong to a committed batch
  visited,             \* entries each walk's visitor was called on
  err,                 \* error returned by Prune
  calcIn,              \* arguments of one call of calculateNumOfPrunedBlocks
  calcOut              \* its result, once it has returned

storeVars == <<db, stored>>
prunerVars == <<config, head, LastPrunedBlockNum, stop, wg, caller>>
cycleVars == <<range, keysToRemove, it, batch, issued, committed, visited, err>>
calcVars == <<calcIn, calcOut>>
vars == <<config, head, db, stored, LastPrunedBlockNum, stop, wg, caller, pc, range,
          keysToRemove, it, batch, issued, committed, visited, err, calcIn, calcOut>>

\* cb == nil || cb.Number() == nil (pruner.go:76).
NoBlock == -1

EmptyDb == [b \in Buckets |-> {}]
NoRange == [from |-> 0, to |-> 0]
NoVisited == [b \in {PlainAccountChangeSetBucket, PlainStorageChangeSetBucket} |-> <<>>]
NoCalcIn == [currentBlock |-> 0, lastPruned |-> 0, retentionDepth |-> 0, batchSize |-> 0]
NoCalcOut == [done |-> FALSE, res |-> CalcResult(0, 0, FALSE, FALSE, FALSE)]

\* The locals of a cycle that has not begun.
NoCycle ==
  /\ range = NoRange
  /\ keysToRemove = newKeysToRemove
  /\ it = NoIterator
  /\ batch = <<>>
  /\ issued = <<>>
  /\ committed = 0
  /\ visited = NoVisited
  /\ err = "nil"

\* A pruner that was constructed and not started (pruner.go:24-37).
NoPruner ==
  /\ LastPrunedBlockNum = 0
  /\ stop = 0
  /\ wg = 0
  /\ caller = "new"

NoCalc == calcIn = NoCalcIn /\ calcOut = NoCalcOut

(* --------------------------------------------------- Prune, step by step *)

\* pruner.go:139-157: the account change-set walk.
WalkAccount ==
  /\ pc = "walkAcc"
  /\ LET entries == Ascending(db[PlainAccountChangeSetBucket])
     IN \E failAt \in 0 .. Len(entries) + 1 :
          LET w == Walk(PlainAccountChangeSetBucket, entries, 1, failAt, newKeysToRemove,
                        <<>>, range.from, range.to)
          IN /\ visited' = [visited EXCEPT ![PlainAccountChangeSetBucket] = w.visited]
             /\ IF w.err # "nil"
                  THEN /\ err' = w.err
                       /\ pc' = "ret"
                       /\ UNCHANGED keysToRemove
                  ELSE /\ keysToRemove' = w.k
                       /\ pc' = "walkStor"
                       /\ UNCHANGED err
  /\ UNCHANGED <<storeVars, prunerVars, calcVars, range, it, batch, issued, committed>>

\* pruner.go:159-178: the storage change-set walk, then the call of batchDelete
\* (pruner.go:188).
WalkStorage ==
  /\ pc = "walkStor"
  /\ LET entries == Ascending(db[PlainStorageChangeSetBucket])
     IN \E failAt \in 0 .. Len(entries) + 1 :
          LET w == Walk(PlainStorageChangeSetBucket, entries, 1, failAt, keysToRemove,
                        <<>>, range.from, range.to)
          IN /\ visited' = [visited EXCEPT ![PlainStorageChangeSetBucket] = w.visited]
             /\ IF w.err # "nil"
                  THEN /\ err' = w.err
                       /\ pc' = "ret"
                       /\ UNCHANGED <<keysToRemove, it>>
                  ELSE /\ keysToRemove' = w.k
                       /\ it' = LimitIterator(w.k, DeleteLimit)
                       /\ pc' = "round"
                       /\ UNCHANGED err
  /\ UNCHANGED <<storeVars, prunerVars, calcVars, range, batch, issued, committed>>

\* pruner.go:189-191 and 208: the head of the outer loop of batchDelete.
BatchRound ==
  /\ pc = "round"
  /\ IF HasMore(it, batches(keysToRemove))
       THEN /\ it' = ResetLimit(it)
            /\ batch' = <<>>
            /\ pc' = "inner"
            /\ UNCHANGED err
       ELSE /\ err' = "nil"
            /\ pc' = "ret"
            /\ UNCHANGED <<it, batch>>
  /\ UNCHANGED <<storeVars, prunerVars, calcVars, range, keysToRemove, issued, committed,
                 visited>>

\* The batch.Delete calls of the cycle that returned an error.
DeleteErrors(log) == Cardinality({n \in 1 .. Len(log) : ~log[n].ok})

\* pruner.go:192-202: one pass of the inner loop; batch.Delete may fail.
BatchGetNext ==
  /\ pc = "inner"
  /\ LET r == GetNext(it, batches(keysToRemove))
     IN /\ it' = r.it
        /\ IF ~r.ok
             THEN /\ pc' = "commit"
                  /\ UNCHANGED <<batch, issued>>
             ELSE /\ \E deleteErr \in BOOLEAN :
                       /\ deleteErr => DeleteErrors(issued) < MaxDeleteErrors
                       /\ issued' = Append(issued, [bucket |-> r.bucket, key |-> r.key,
                                                    ok |-> ~deleteErr])
                       /\ batch' = IF deleteErr THEN batch
                                   ELSE Append(batch, [bucket |-> r.bucket, key |-> r.key])
                  /\ UNCHANGED pc
  /\ UNCHANGED <<storeVars, prunerVars, calcVars, range, keysToRemove, committed, visited,
                 err>>

\* The store after the staged deletes of a batch are applied atomically.
ApplyBatch(d, b) ==
  [bk \in Buckets |-> d[bk] \ {b[n].key : n \in {m \in 1 .. Len(b) : b[m].bucket = bk}}]

\* pruner.go:203-206: batch.Commit succeeds or fails.
BatchCommit ==
  /\ pc = "commit"
  /\ \/ /\ db' = ApplyBatch(db, batch)
        /\ committed' = Len(issued)
        /\ batch' = <<>>
        /\ pc' = "round"
        /\ UNCHANGED err
     \/ /\ err' = "commit"
        /\ pc' = "ret"
        /\ UNCHANGED <<db, committed, batch>>
  /\ UNCHANGED <<stored, prunerVars, calcVars, range, keysToRemove, it, issued, visited>>

(* ------------------------------------------------------ the BasicPruner *)

\* pruner.go:130-136: the bytes written under LastPrunedBlockKey.
WriteLastPrunedBlockNum(num) == PutUint64(num, 8)

\* Mutant: Start launches the worker without loading the stored checkpoint.
StartNoLoad ==
  /\ caller = "new"
  /\ wg' = wg + 1
  /\ pc' = "select"
  /\ caller' = "started"
  /\ UNCHANGED <<storeVars, config, head, LastPrunedBlockNum, stop, cycleVars, calcVars>>

\* pruner.go:49-57.
Start ==
  /\ caller = "new"
  /\ LastPrunedBlockNum' = ReadLastPrunedBlockNum(stored)
  /\ wg' = wg + 1
  /\ pc' = "select"
  /\ caller' = "started"
  /\ UNCHANGED <<storeVars, config, head, stop, cycleVars, calcVars>>

\* pruner.go:116: the send on the one-slot stop channel.
StopSend ==
  /\ caller = "started"
  /\ pc # "crashed"
  /\ stop = 0
  /\ stop' = 1
  /\ caller' = "waiting"
  /\ UNCHANGED <<storeVars, config, head, LastPrunedBlockNum, wg, pc, cycleVars, calcVars>>

\* Mutant: Stop returns after the send, without waiting for the worker.
StopReturnNoWait ==
  /\ caller = "waiting"
  /\ pc # "crashed"
  /\ caller' = "stopped"
  /\ UNCHANGED <<storeVars, config, head, LastPrunedBlockNum, stop, wg, pc, cycleVars,
                 calcVars>>

\* pruner.go:117-118: wg.Wait() returns.
StopReturn ==
  /\ caller = "waiting"
  /\ pc # "crashed"
  /\ wg = 0
  /\ caller' = "stopped"
  /\ UNCHANGED <<storeVars, config, head, LastPrunedBlockNum, stop, wg, pc, cycleVars,
                 calcVars>>

\* pruner.go:24-37: a new pruner over the same store, once the old one stopped.
NewBasicPruner ==
  /\ caller = "stopped"
  /\ LastPrunedBlockNum' = 0
  /\ stop' = 0
  /\ wg' = 0
  /\ caller' = "new"
  /\ pc' = "none"
  /\ range' = NoRange
  /\ keysToRemove' = newKeysToRemove
  /\ it' = NoIterator
  /\ batch' = <<>>
  /\ issued' = <<>>
  /\ committed' = 0
  /\ visited' = NoVisited
  /\ err' = "nil"
  /\ UNCHANGED <<storeVars, config, head, calcVars>>

\* pruner.go:67-70: the stop case.  db.Put either stores the checkpoint or
\* fails, and log.Crit then ends the process.
SelectStop ==
  /\ pc = "select"
  /\ stop = 1
  /\ stop' = 0
  /\ \/ /\ stored' = WriteLastPrunedBlockNum(LastPrunedBlockNum)
        /\ pc' = "exited"
        /\ wg' = wg - 1
     \/ /\ pc' = "crashed"
        /\ UNCHANGED <<stored, wg>>
  /\ UNCHANGED <<db, config, head, LastPrunedBlockNum, caller, cycleVars, calcVars>>

\* pruner.go:71-73: the checkpoint-flush ticker.
FlushTick ==
  /\ pc = "select"
  /\ \/ /\ stored' = WriteLastPrunedBlockNum(LastPrunedBlockNum)
        /\ UNCHANGED pc
     \/ /\ pc' = "crashed"
        /\ UNCHANGED stored
  /\ UNCHANGED <<db, prunerVars, cycleVars, calcVars>>

\* Mutant: the checkpoint is advanced when the cycle begins, before Prune ran.
PruneTickAdvancesEarly ==
  /\ pc = "select"
  /\ head # NoBlock
  /\ LET r == calculateNumOfPrunedBlocks(head, LastPrunedBlockNum,
                                         config.BlocksBeforePruning,
                                         config.BlocksToPrune)
     IN /\ r.ok
        /\ range' = [from |-> r.from, to |-> r.to]
        /\ LastPrunedBlockNum' = r.to
  /\ keysToRemove' = newKeysToRemove
  /\ it' = NoIterator
  /\ batch' = <<>>
  /\ issued' = <<>>
  /\ committed' = 0
  /\ visited' = NoVisited
  /\ err' = "nil"
  /\ pc' = "walkAcc"
  /\ UNCHANGED <<storeVars, config, head, stop, wg, caller, calcVars>>

\* Mutant: the ok result of the range calculator is not looked at.
PruneTickIgnoresOk ==
  /\ pc = "select"
  /\ IF head = NoBlock
       THEN /\ pc' = "continue"
            /\ UNCHANGED cycleVars
       ELSE LET r == calculateNumOfPrunedBlocks(head, LastPrunedBlockNum,
                                                config.BlocksBeforePruning,
                                                config.BlocksToPrune)
            IN /\ range' = [from |-> r.from, to |-> r.to]
               /\ keysToRemove' = newKeysToRemove
               /\ it' = NoIterator
               /\ batch' = <<>>
               /\ issued' = <<>>
               /\ committed' = 0
               /\ visited' = NoVisited
               /\ err' = "nil"
               /\ pc' = "walkAcc"
  /\ UNCHANGED <<storeVars, prunerVars, calcVars>>

\* pruner.go:74-84: the prune ticker, up to the call of Prune or to the
\* `continue` that skips the tick.
PruneTick ==
  /\ pc = "select"
  /\ IF head = NoBlock
       THEN /\ pc' = "continue"
            /\ UNCHANGED cycleVars
       ELSE LET r == calculateNumOfPrunedBlocks(head, LastPrunedBlockNum,
                                                config.BlocksBeforePruning,
                                                config.BlocksToPrune)
            IN IF ~r.ok
                 THEN /\ pc' = "continue"
                      /\ UNCHANGED cycleVars
                 ELSE /\ range' = [from |-> r.from, to |-> r.to]
                      /\ keysToRemove' = newKeysToRemove
                      /\ it' = NoIterator
                      /\ batch' = <<>>
                      /\ issued' = <<>>
                      /\ committed' = 0
                      /\ visited' = NoVisited
                      /\ err' = "nil"
                      /\ pc' = "walkAcc"
  /\ UNCHANGED <<storeVars, prunerVars, calcVars>>

\* pruner.go:77 and 81: `continue`, back to the select.
Continue ==
  /\ pc = "continue"
  /\ pc' = "select"
  /\ UNCHANGED <<storeVars, prunerVars, cycleVars, calcVars>>

\* Mutant: the error of Prune is logged and the loop goes on.
PruneReturnIgnoresErr ==
  /\ pc = "ret"
  /\ LastPrunedBlockNum' = range.to
  /\ pc' = "select"
  /\ UNCHANGED <<storeVars, config, head, stop, wg, caller, cycleVars, calcVars>>

\* pruner.go:85-89: Prune has returned.
PruneReturn ==
  /\ pc = "ret"
  /\ IF err # "nil"
       THEN /\ pc' = "exited"
            /\ wg' = wg - 1
            /\ UNCHANGED LastPrunedBlockNum
       ELSE /\ LastPrunedBlockNum' = range.to
            /\ pc' = "select"
            /\ UNCHANGED wg
  /\ UNCHANGED <<storeVars, config, head, stop, caller, cycleVars, calcVars>>

\* The chain grows by one block.
HeadAdvance ==
  /\ pc # "crashed"
  /\ head < MaxBlock
  /\ head' = head + 1
  /\ UNCHANGED <<storeVars, config, LastPrunedBlockNum, stop, wg, caller, pc, cycleVars,
                 calcVars>>

(* ------------------------------------------------------- specifications *)

\* One change-set key per block number, all of the same subject key.
ChangeSetKeys == {ChangeSetKey(t, 1) : t \in 0 .. MaxBlock}

SmallSubsets(S, n) == {T \in SUBSET S : Cardinality(T) <= n}

\* A store whose account history holds the companion key of every account
\* change-set entry.
StoreOf(acc, stor) ==
  [b \in Buckets |->
     IF b = PlainAccountChangeSetBucket THEN acc
     ELSE IF b = PlainStorageChangeSetBucket THEN stor
     ELSE IF b = AccountsHistoryBucket
       THEN {CompositeKeySuffix(Decode(key).parsedK, Decode(key).timestamp) : key \in acc}
     ELSE {}]

\* Valid configs (pruner.go:25): BlocksToPrune is not 0.
Configs == [BlocksBeforePruning : {0, 1}, BlocksToPrune : {1, 2}]

\* The numbers of the end-to-end scenario: head 100100, retention 90000,
\* batch 70000.
ScenarioValues == {100100, 90000, 70000}

\* Checkpoints an earlier run may have left in the store: small ones and the
\* multi-byte numbers of the scenario.
StoredCheckpoints == (0 .. MaxStored) \cup ScenarioValues

\* The state after NewBasicPruner: any store, any chain, a valid config.
Init ==
  /\ config \in Configs
  /\ head \in NoBlock .. MaxBlock
  /\ \E acc \in SmallSubsets(ChangeSetKeys, MaxStoreEntries),
        stor \in SmallSubsets(ChangeSetKeys, 1) :
       db = StoreOf(acc, stor)
  /\ stored \in {<<>>} \cup {WriteLastPrunedBlockNum(n) : n \in StoredCheckpoints}
  /\ NoPruner
  /\ pc = "none"
  /\ NoCycle
  /\ NoCalc

Next ==
  \/ Start
  \/ StopSend
  \/ StopReturn
  \/ NewBasicPruner
  \/ SelectStop
  \/ FlushTick
  \/ PruneTick
  \/ Continue
  \/ WalkAccount
  \/ WalkStorage
  \/ BatchRound
  \/ BatchGetNext
  \/ BatchCommit
  \/ PruneReturn
  \/ HeadAdvance

Spec == Init /\ [][Next]_vars

\* Prune on its own: any range, and a store of which one change-set bucket
\* holds up to MaxEntries entries and the other at most one.
InitPrune ==
  /\ config = [BlocksBeforePruning |-> 0, BlocksToPrune |-> 1]
  /\ head = NoBlock
  /\ \E big \in SmallSubsets(ChangeSetKeys, MaxEntries),
        small \in SmallSubsets(ChangeSetKeys, 1) :
       db \in {StoreOf(big, small), StoreOf(small, big)}
  /\ stored = <<>>
  /\ NoPruner
  /\ pc = "walkAcc"
  /\ range \in {r \in [from : 0 .. MaxBlock, to : 0 .. MaxBlock] : r.from <= r.to}
  /\ keysToRemove = newKeysToRemove
  /\ it = NoIterator
  /\ batch = <<>>
  /\ issued = <<>>
  /\ committed = 0
  /\ visited = NoVisited
  /\ err = "nil"
  /\ NoCalc

NextPrune ==
  \/ WalkAccount
  \/ WalkStorage
  \/ BatchRound
  \/ BatchGetNext
  \/ BatchCommit

SpecPrune == InitPrune /\ [][NextPrune]_vars

\* Change-set keys the decoder fails on, one per timestamp it may return.
MalformedKeys == {ChangeSetKey(t, 0) : t \in 0 .. MaxBlock}

\* One cycle of a started worker, from the call of Prune to the statement
\* after it, over a store whose change-set buckets may hold malformed keys.
InitDecode ==
  /\ config = [BlocksBeforePruning |-> 0, BlocksToPrune |-> 1]
  /\ head = NoBlock
  /\ \E acc \in SmallSubsets(ChangeSetKeys \cup MalformedKeys, MaxStoreEntries + 1),
        stor \in SmallSubsets(ChangeSetKeys \cup MalformedKeys, 1) :
       db = StoreOf(acc, stor)
  /\ stored = <<>>
  /\ range \in {r \in [from : 0 .. MaxBlock, to : 0 .. MaxBlock] : r.from <= r.to}
  /\ LastPrunedBlockNum = range.from
  /\ stop = 0
  /\ wg = 1
  /\ caller = "started"
  /\ pc = "walkAcc"
  /\ keysToRemove = newKeysToRemove
  /\ it = NoIterator
  /\ batch = <<>>
  /\ issued = <<>>
  /\ committed = 0
  /\ visited = NoVisited
  /\ err = "nil"
  /\ NoCalc

NextDecode ==
  \/ WalkAccount
  \/ WalkStorage
  \/ BatchRound
  \/ BatchGetNext
  \/ BatchCommit
  \/ PruneReturn

SpecDecode == InitDecode /\ [][NextDecode]_vars

\* batchDelete on its own: any key groups, any limit >= 1.
GroupKeys(g, n) == [j \in 1 .. n |-> <<g, j>>]

InitDelete ==
  /\ config = [BlocksBeforePruning |-> 0, BlocksToPrune |-> 1]
  /\ head = NoBlock
  /\ db = EmptyDb
  /\ stored = <<>>
  /\ NoPruner
  /\ pc = "round"
  /\ range = NoRange
  /\ \E len \in [1 .. 5 -> 0 .. MaxKeys] :
       keysToRemove = [AccountHistoryKeys |-> GroupKeys(1, len[1]),
                       StorageHistoryKeys |-> GroupKeys(2, len[2]),
                       StorageKeys |-> GroupKeys(3, len[3]),
                       AccountChangeSet |-> GroupKeys(4, len[4]),
                       StorageChangeSet |-> GroupKeys(5, len[5]),
                       IntermediateTrieHashKeys |-> <<>>]
  /\ \E limit \in 1 .. MaxLimit : it = LimitIterator(keysToRemove, limit)
  /\ batch = <<>>
  /\ issued = <<>>
  /\ committed = 0
  /\ visited = NoVisited
  /\ err = "nil"
  /\ NoCalc

NextDelete ==
  \/ BatchRound
  \/ BatchGetNext
  \/ BatchCommit

SpecDelete == InitDelete /\ [][NextDelete]_vars

\* batchDelete scheduled fairly: a goroutine that can take a step takes it.
SpecDeleteFair == SpecDelete /\ WF_vars(NextDelete)

\* Stop against a started worker that is inside batchDelete.  The limit and
\* the key groups are scaled down together: a limit of 1 .. MaxLimit with
\* groups of up to MaxKeys keys stands for DeleteLimit with groups of tens of
\* thousands of keys.
InitStop ==
  /\ config = [BlocksBeforePruning |-> 0, BlocksToPrune |-> 1]
  /\ head = NoBlock
  /\ db = EmptyDb
  /\ stored = <<>>
  /\ LastPrunedBlockNum = 0
  /\ stop = 0
  /\ wg = 1
  /\ caller = "started"
  /\ pc = "round"
  /\ range = [from |-> 0, to |-> 1]
  /\ \E len \in [1 .. 5 -> 0 .. MaxKeys] :
       keysToRemove = [AccountHistoryKeys |-> GroupKeys(1, len[1]),
                       StorageHistoryKeys |-> GroupKeys(2, len[2]),
                       StorageKeys |-> GroupKeys(3, len[3]),
                       AccountChangeSet |-> GroupKeys(4, len[4]),
                       StorageChangeSet |-> GroupKeys(5, len[5]),
                       IntermediateTrieHashKeys |-> <<>>]
  /\ \E limit \in 1 .. MaxLimit : it = LimitIterator(keysToRemove, limit)
  /\ batch = <<>>
  /\ issued = <<>>
  /\ committed = 0
  /\ visited = NoVisited
  /\ err = "nil"
  /\ NoCalc

\* The steps of the worker goroutine.
NextStopWorker ==
  \/ BatchRound
  \/ BatchGetNext
  \/ BatchCommit
  \/ PruneReturn
  \/ SelectStop

\* The steps of the goroutine that calls Stop.
NextStopCaller ==
  \/ StopSend
  \/ StopReturn

NextStop == NextStopWorker \/ NextStopCaller

\* The scheduler runs a goroutine that can take a step; whether and when
\* Stop is called is up to the caller.
SpecStopFair ==
  /\ InitStop
  /\ [][NextStop]_vars
  /\ WF_vars(NextStopWorker)
  /\ WF_vars(StopReturn)

\* The checkpoint in the store, 0 when there is none.
Persisted == IF stored = <<>> THEN 0 ELSE Uint64(stored)

\* The pruner over a chain whose head is known and never decreases, the stored
\* checkpoint being at most the head minus the retention depth.
InitMono ==
  /\ Init
  /\ head # NoBlock
  /\ Persisted + config.BlocksBeforePruning <= head

SpecMono == InitMono /\ [][Next]_vars

(* ----------------------------------------- the range calculator alone *)

CalcInputs == (0 .. MaxSmall) \cup ((UintMod - 1 - MaxSmall) .. (UintMod - 1))
                \cup ScenarioValues

InitCalc ==
  /\ calcIn \in [currentBlock : CalcInputs, lastPruned : CalcInputs,
                 retentionDepth : CalcInputs, batchSize : CalcInputs]
  /\ calcOut = NoCalcOut
  /\ config = [BlocksBeforePruning |-> 0, BlocksToPrune |-> 1]
  /\ head = NoBlock
  /\ db = EmptyDb
  /\ stored = <<>>
  /\ NoPruner
  /\ pc = "none"
  /\ NoCycle

Calc ==
  /\ ~calcOut.done
  /\ calcOut' = [done |-> TRUE,
                 res |-> calculateNumOfPrunedBlocks(calcIn.currentBlock, calcIn.lastPruned,
                                                    calcIn.retentionDepth, calcIn.batchSize)]
  /\ UNCHANGED <<calcIn, storeVars, prunerVars, pc, cycleVars>>

NextCalc == Calc

SpecCalc == InitCalc /\ [][NextCalc]_vars

(* --------------------------------------------------------------- claims *)

(* C2: range safety.  For every currentBlock <= lastPruned the calculator
   returns not-eligible with from = to = lastPruned, and in no call at all
   is an unsigned subtraction evaluated that wraps around. *)
RangeSafety ==
  calcOut.done =>
    /\ ~calcOut.res.underflow
    /\ calcIn.currentBlock <= calcIn.lastPruned =>
         /\ ~calcOut.res.ok
         /\ calcOut.res.from = calcIn.lastPruned
         /\ calcOut.res.to = calcIn.lastPruned

RangeSafetyWitness ==
  /\ calcOut.done
  /\ calcIn.currentBlock < calcIn.lastPruned
  /\ SubU64(calcIn.currentBlock, calcIn.lastPruned) > calcIn.retentionDepth
  /\ ~calcOut.res.ok

(* C3: batch cap.  Every eligible result has from = lastPruned, from <= to
   and to - from <= batchSize, and the addition that produced `to` did not
   wrap around. *)
BatchCap ==
  (calcOut.done /\ calcOut.res.ok) =>
    /\ calcOut.res.from = calcIn.lastPruned
    /\ calcOut.res.from <= calcOut.res.to
    /\ calcOut.res.to - calcOut.res.from <= calcIn.batchSize
    /\ ~calcOut.res.overflow

BatchCapWitness ==
  /\ calcOut.done
  /\ calcOut.res.ok
  /\ calcIn.lastPruned + calcIn.batchSize >= UintMod
  /\ calcIn.batchSize > 0
  /\ calcOut.res.to > calcOut.res.from

(* C4: the calculator agrees with the reference definition over the
   integers: eligible exactly when currentBlock > lastPruned and
   currentBlock - lastPruned > retentionDepth, and then from = lastPruned,
   to = lastPruned + min(currentBlock - lastPruned - retentionDepth,
   batchSize); otherwise from = to = lastPruned. *)
RefEligible ==
  /\ calcIn.currentBlock > calcIn.lastPruned
  /\ calcIn.currentBlock - calcIn.lastPruned > calcIn.retentionDepth

RefTo ==
  calcIn.lastPruned
    + Min(calcIn.currentBlock - calcIn.lastPruned - calcIn.retentionDepth, calcIn.batchSize)

AgreesWithReference ==
  calcOut.done =>
    /\ calcOut.res.ok = RefEligible
    /\ calcOut.res.from = calcIn.lastPruned
    /\ calcOut.res.to = IF RefEligible THEN RefTo ELSE calcIn.lastPruned

AgreesWithReferenceWitness ==
  /\ calcOut.done
  /\ calcIn = [currentBlock |-> 100100, lastPruned |-> 0,
               retentionDepth |-> 90000, batchSize |-> 70000]
  /\ calcOut.res.ok
  /\ calcOut.res.from = 0
  /\ calcOut.res.to = 10100

(* C1: exactly-once deletion.  When batchDelete returns without a commit
   error, the keys GetNext returned with ok = true over all rounds are the
   keys of all groups, each exactly once: none skipped, none repeated, none
   made up. *)
KeyPairs(k) ==
  LET bs == batches(k)
  IN UNION {{[bucket |-> bs[g].bucket, key |-> bs[g].keys[j]] : j \in 1 .. Len(bs[g].keys)} :
              g \in 1 .. Len(bs)}

Returned(n) == [bucket |-> issued[n].bucket, key |-> issued[n].key]

Occurrences(pair) == Cardinality({n \in 1 .. Len(issued) : Returned(n) = pair})

ExactlyOnceDeletion ==
  (pc = "ret" /\ err = "nil") =>
    /\ \A pair \in KeyPairs(keysToRemove) : Occurrences(pair) = 1
    /\ \A n \in 1 .. Len(issued) : Returned(n) \in KeyPairs(keysToRemove)

(* C5: checkpoint-after-commit ordering.  In every step in which the worker
   advances LastPrunedBlockNum to `to`, every key collected in that cycle
   has been issued as a delete in a batch whose commit succeeded. *)
Committed == {Returned(n) : n \in 1 .. committed}

CheckpointAfterCommit ==
  [][(pc = "ret" /\ pc' = "select") => KeyPairs(keysToRemove) \subseteq Committed]_vars

(* C6: checkpoint monotonicity.  With a known head that never decreases and
   a stored checkpoint that starts at most at head minus retention depth,
   the stored checkpoint never decreases and never exceeds the head minus
   the retention depth. *)
CheckpointMonotone ==
  [][/\ Persisted' >= Persisted
     /\ Persisted + config.BlocksBeforePruning <= head
     /\ Persisted' + config.BlocksBeforePruning <= head']_vars

CheckpointMonotoneWitness ==
  /\ caller = "stopped"
  /\ pc = "exited"
  /\ err = "nil"
  /\ Persisted > MaxStored
  /\ Persisted = LastPrunedBlockNum

(* C7: scan window.  After the walks, and before anything is deleted, the
   account change-set group holds exactly the bucket's entries with
   from <= timestamp <= to in ascending order, the account history group
   holds the companion key of each of them at the same position, and the
   storage change-set group holds exactly the storage bucket's entries of
   the window. *)
InWindow(key) ==
  /\ range.from <= Decode(key).timestamp
  /\ Decode(key).timestamp <= range.to

Companions(keys) ==
  [n \in 1 .. Len(keys) |->
     CompositeKeySuffix(Decode(keys[n]).parsedK, Decode(keys[n]).timestamp)]

AccountScanned == pc = "walkStor" \/ (pc = "round" /\ issued = <<>>)
StorageScanned == pc = "round" /\ issued = <<>>

ScanWindow ==
  /\ AccountScanned =>
       /\ keysToRemove.AccountChangeSet =
            SelectSeq(Ascending(db[PlainAccountChangeSetBucket]), InWindow)
       /\ keysToRemove.AccountHistoryKeys = Companions(keysToRemove.AccountChangeSet)
  /\ StorageScanned =>
       keysToRemove.StorageChangeSet =
         SelectSeq(Ascending(db[PlainStorageChangeSetBucket]), InWindow)

ScanWindowWitness ==
  /\ StorageScanned
  /\ \E a, b, c \in db[PlainAccountChangeSetBucket] :
       /\ Decode(a).timestamp < range.from
       /\ Decode(b).timestamp = range.from
       /\ Decode(c).timestamp = range.to
       /\ b # c
  /\ Len(keysToRemove.AccountHistoryKeys) = 2
  /\ Len(keysToRemove.StorageChangeSet) = 1

(* C8: scan termination.  Each walk's visitor is called on the entries of
   the bucket in ascending order up to and including the first entry with
   timestamp > to and on no entry after it, and that entry is not
   collected; without such an entry it is called on every entry. *)
PastWindow(entries) == {n \in 1 .. Len(entries) : Decode(entries[n]).timestamp > range.to}

FirstPast(entries) == CHOOSE n \in PastWindow(entries) : \A m \in PastWindow(entries) : n <= m

StopsAtFirstPast(bucket, collected) ==
  LET entries == Ascending(db[bucket])
  IN IF PastWindow(entries) = {}
       THEN visited[bucket] = entries
       ELSE /\ visited[bucket] = SubSeq(entries, 1, FirstPast(entries))
            /\ \A n \in 1 .. Len(collected) : collected[n] # entries[FirstPast(entries)]

ScanTermination ==
  /\ AccountScanned =>
       StopsAtFirstPast(PlainAccountChangeSetBucket, keysToRemove.AccountChangeSet)
  /\ StorageScanned =>
       StopsAtFirstPast(PlainStorageChangeSetBucket, keysToRemove.StorageChangeSet)

ScanTerminationWitness ==
  /\ StorageScanned
  /\ Len(keysToRemove.StorageChangeSet) = 1
  /\ Len(visited[PlainStorageChangeSetBucket]) = 2
  /\ Cardinality(db[PlainStorageChangeSetBucket]) = 3
  /\ Len(visited[PlainAccountChangeSetBucket]) = 1
  /\ keysToRemove.AccountChangeSet = <<>>

(* C9: a failed single-key delete does not abort the batch.  When a
   batch.Delete call of the cycle returned an error and Prune returns
   success, a delete was issued for every key of every group and every
   batch was committed. *)
FailedDeleteDoesNotAbort ==
  (pc = "ret" /\ err = "nil" /\ DeleteErrors(issued) > 0) =>
    /\ KeyPairs(keysToRemove) \subseteq {Returned(n) : n \in 1 .. Len(issued)}
    /\ committed = Len(issued)

(* C10: a commit error or a walk error is fatal.  Once Prune has returned an
   error the checkpoint in memory, the store and the log of deletes stay as
   they are and the worker's only step is to exit; after it has exited with
   the error nothing of the worker changes any more, short of constructing
   a new pruner. *)
WorkerFrozen ==
  UNCHANGED <<LastPrunedBlockNum, db, stored, range, keysToRemove, it, batch, issued,
              committed, visited, err>>

FatalErrors ==
  [][/\ (pc = "ret" /\ err # "nil") => (pc' \in {"ret", "exited"} /\ WorkerFrozen)
     /\ (pc = "exited" /\ err # "nil") => (pc' = "none" \/ (pc' = "exited" /\ WorkerFrozen))
    ]_vars

FatalErrorsWitness ==
  /\ pc = "exited"
  /\ err = "commit"
  /\ Len(issued) > committed
  /\ head # NoBlock
  /\ stop = 1
  /\ caller = "stopped"


(* C11: a decode error aborts the cycle.  Once a walk has called its visitor
   on an entry the decoder fails on, Prune has returned an error without any
   delete being issued, and the worker leaves the checkpoint where it was
   when the cycle began. *)
UndecodableVisited ==
  \E b \in DOMAIN visited : \E n \in 1 .. Len(visited[b]) : Decode(visited[b][n]).err

DecodeErrorAborts ==
  UndecodableVisited =>
    /\ pc \in {"ret", "exited"}
    /\ err # "nil"
    /\ issued = <<>>
    /\ LastPrunedBlockNum = range.from

\* The positions of the worker inside a prune cycle.
CyclePcs == {"walkAcc", "walkStor", "round", "inner", "commit", "ret"}

(* C12: Stop is a join with no mid-cycle cancellation.  A stop signal that
   is pending while a cycle runs stays pending until the cycle has completed
   (the worker is back at its select) or failed (the worker has exited); a
   worker that leaves its select for good has written its in-memory
   checkpoint; and Stop has returned only when the wait group is at 0 and
   the worker has exited, the persisted checkpoint then being the in-memory
   one if the worker exited on the stop signal. *)
StopIsJoin ==
  [][/\ (stop = 1 /\ pc \in CyclePcs) =>
          (stop' = 1 /\ pc' \in CyclePcs \cup {"select", "exited"})
     /\ (pc = "select" /\ pc' = "exited") =>
          stored' = WriteLastPrunedBlockNum(LastPrunedBlockNum')
     /\ caller' = "stopped" =>
          /\ wg' = 0
          /\ pc' = "exited"
          /\ err' = "nil" => Persisted' = LastPrunedBlockNum']_vars

StopIsJoinWitness ==
  /\ caller = "stopped"
  /\ pc = "exited"
  /\ err = "nil"
  /\ range.from < range.to
  /\ LastPrunedBlockNum = range.to
  /\ Persisted = LastPrunedBlockNum

\* The deletes issued in the round that is open or was just closed.
RoundSize == Len(issued) - committed

(* C13: bounded batches.  No round of batchDelete issues more than `limit`
   deletes into its batch; no batch is open when a round begins; and at the
   start of every round the budget is whole again, that is, the limit check
   of GetNext does not refuse the round's first key. *)
BoundedBatches ==
  /\ RoundSize <= it.limit
  /\ pc = "round" => batch = <<>>
  /\ (pc = "inner" /\ RoundSize = 0) => it.currentNum < it.limit

(* C14, as stated: in every reachable state the persisted checkpoint is at
   most the in-memory checkpoint. *)
PersistedNeverAhead == Persisted <= LastPrunedBlockNum

(* C14, amended: the flush never races ahead.  Every write of the stored
   checkpoint is made by the worker at its select and stores the in-memory
   checkpoint; the in-memory checkpoint changes only when Start loads it
   from the store, when a cycle that returned no error sets it to its `to`,
   or when a new pruner is constructed with 0; and from Start on the
   persisted checkpoint is at most the in-memory one. *)
FlushNeverAhead ==
  [][/\ stored' # stored =>
          /\ pc = "select"
          /\ stored' = WriteLastPrunedBlockNum(LastPrunedBlockNum)
     /\ LastPrunedBlockNum' # LastPrunedBlockNum =>
          \/ caller = "new" /\ LastPrunedBlockNum' = ReadLastPrunedBlockNum(stored)
          \/ pc = "ret" /\ err = "nil" /\ LastPrunedBlockNum' = range.to
          \/ caller = "stopped" /\ LastPrunedBlockNum' = 0
     /\ caller' # "new" => Persisted' <= LastPrunedBlockNum']_vars

FlushNeverAheadWitness ==
  /\ caller = "started"
  /\ pc = "select"
  /\ range.from < range.to
  /\ LastPrunedBlockNum = range.to
  /\ Persisted = LastPrunedBlockNum
  /\ stop = 0

\* The range calculator's verdict on the pruner's current state.
Eligible ==
  /\ head # NoBlock
  /\ calculateNumOfPrunedBlocks(head, LastPrunedBlockNum, config.BlocksBeforePruning,
                                config.BlocksToPrune).ok

(* C15: a prune tick without a head, or with a not-eligible range, is a
   no-op.  From a state that is not eligible the worker enters no cycle; the
   step by which the tick is skipped changes neither the store, nor the two
   checkpoints, nor anything of a cycle (scan, batch or deletes), nor the
   wait group; a tick is skipped only in such a state; and after the skip
   the worker's next step takes it back to its select. *)
TickNoOp ==
  [][/\ (pc = "select" /\ ~Eligible) => pc' \notin CyclePcs
     /\ (pc = "select" /\ pc' = "continue") =>
          /\ ~Eligible
          /\ UNCHANGED <<db, stored, LastPrunedBlockNum, wg, cycleVars>>
     /\ (pc = "select" /\ pc' = "walkAcc") => Eligible
     /\ pc = "continue" => pc' \in {"continue", "select"}]_vars

TickNoOpWitness ==
  /\ pc = "continue"
  /\ head # NoBlock
  /\ LastPrunedBlockNum > 0
  /\ LastPrunedBlockNum = range.to
  /\ issued # <<>>

(* C16: resumable checkpoint.  Start sets the in-memory checkpoint to the
   number read back from the stored bytes, 0 when there are none, in the step
   that launches the worker; once Stop has returned from a worker that
   honoured it, the stored bytes read back as the checkpoint held at Stop,
   also across the construction of the next pruner; nothing writes the store
   between that construction and Start; the in-memory checkpoint stays as
   loaded while the worker waits at its select; and every range a cycle
   starts with has `from` equal to the in-memory checkpoint. *)
ResumableCheckpoint ==
  [][/\ (caller = "new" /\ caller' = "started") =>
          /\ pc = "none" /\ pc' = "select"
          /\ LastPrunedBlockNum' = Persisted
     /\ (caller = "stopped" /\ err = "nil") => Persisted' = LastPrunedBlockNum
     /\ caller = "new" => stored' = stored
     /\ pc \in {"select", "continue"} => LastPrunedBlockNum' = LastPrunedBlockNum
     /\ (pc = "select" /\ pc' = "walkAcc") => range'.from = LastPrunedBlockNum]_vars

\* A restarted pruner that has loaded a checkpoint written by an earlier
\* worker and has not yet run a cycle of its own.
ResumableCheckpointWitness ==
  /\ caller = "started"
  /\ pc = "continue"
  /\ range = NoRange
  /\ Persisted = MaxBlock
  /\ LastPrunedBlockNum = Persisted

\* The keys of a group, each paired with the group's bucket name.
Paired(bucket, keys) == [j \in 1 .. Len(keys) |-> [bucket |-> bucket, key |-> keys[j]]]

\* The traversal the iterator is meant to make: account history, storage
\* history, hashed storage, account change-log, storage change-log.
Traversal(k) ==
  Paired(AccountsHistoryBucket, k.AccountHistoryKeys)
    \o Paired(StorageHistoryBucket, k.StorageHistoryKeys)
    \o Paired(HashedStorageBucket, k.StorageKeys)
    \o Paired(PlainAccountChangeSetBucket, k.AccountChangeSet)
    \o Paired(PlainStorageChangeSetBucket, k.StorageChangeSet)

\* The pairs GetNext has returned so far, in the order of the calls.
ReturnedSoFar == [n \in 1 .. Len(issued) |-> Returned(n)]

(* C17: fixed traversal order.  The pairs GetNext has returned are, in order,
   the first pairs of the traversal; and whenever the round's budget is not
   used up and a pair of the traversal is still to come, the next call
   returns ok = true with exactly that pair, whatever empty groups lie
   before it. *)
FixedTraversalOrder ==
  LET t == Traversal(keysToRemove)
      r == GetNext(it, batches(keysToRemove))
  IN /\ Len(issued) <= Len(t)
     /\ ReturnedSoFar = SubSeq(t, 1, Len(issued))
     /\ (pc = "inner" /\ RoundSize < it.limit /\ Len(issued) < Len(t)) =>
          /\ r.ok
          /\ [bucket |-> r.bucket, key |-> r.key] = t[Len(issued) + 1]

\* The number of keys the cursor has moved past, over all groups.
RECURSIVE KeysBefore(_, _, _)
KeysBefore(bs, bucket, g) ==
  IF g > Len(bs) \/ bs[g].bucket = bucket THEN 0
  ELSE Len(bs[g].keys) + KeysBefore(bs, bucket, g + 1)

CursorPosition ==
  IF it.currentBucket = "" THEN 0
  ELSE KeysBefore(batches(keysToRemove), it.currentBucket, 1) + it.currentNum

(* C18: exhaustion.  HasMore is true as long as the cursor has keys ahead of
   it; when HasMore is false every key of every group has been returned;
   the cursor has moved past exactly as many keys as GetNext has returned
   with ok = true; and GetNext returns ok = false only when the round has
   taken `limit` keys or every key has been returned. *)
Exhaustion ==
  LET t == Traversal(keysToRemove)
      bs == batches(keysToRemove)
  IN /\ CursorPosition < Len(t) => HasMore(it, bs)
     /\ ~HasMore(it, bs) => ReturnedSoFar = t
     /\ CursorPosition = Len(issued)
     /\ (pc = "inner" /\ ~GetNext(it, bs).ok) =>
          (RoundSize >= it.limit \/ Len(issued) = Len(t))

(* C19: batchDelete terminates.  Under fair scheduling every run of
   batchDelete, for any key groups and any limit >= 1, reaches its return. *)
BatchDeleteTerminates == <>(pc = "ret")

(* C20: Stop always returns.  Under fair scheduling a Stop that has sent its
   signal returns, unless log.Crit has ended the process; and the send
   itself never blocks, the stop channel being empty whenever Stop is yet to
   be called. *)
StopAlwaysReturns ==
  /\ [](caller = "started" => stop = 0)
  /\ (caller = "waiting") ~> (caller = "stopped" \/ pc = "crashed")

====
